---- MODULE Spec2Model ----
(***************************************************************************)
(* Orbital correction of interferograms (pyrate/orbital.py): the parameter *)
(* model, the design matrix builders, the independent and the network      *)
(* correction and the orchestrator orbital_correction.                     *)
(*                                                                         *)
(* Numbers are exact rationals <<n, d>> with d > 0 in lowest terms; the    *)
(* IEEE specials of a phase raster are <<0, 0>> (NaN, the no-data marker)  *)
(* and <<1, 0>>, <<-1, 0>> (+Inf, -Inf).  Floating-point rounding is not   *)
(* modelled: a least-squares solve returns the exact minimum-norm          *)
(* solution that scipy.linalg.lstsq and numpy.linalg.pinv approximate.     *)
(***************************************************************************)
EXTENDS Integers, Sequences, FiniteSets, TLC

\* ------------------------------------------------------------ constants
\* orbital.py:44-49
INDEPENDENT_METHOD == "INDEPENDENT_METHOD"
NETWORK_METHOD == "NETWORK_METHOD"
PLANAR == "PLANAR"
QUADRATIC == "QUADRATIC"
PART_CUBIC == "PART_CUBIC"

\* Python's True, False and None as argument values
PyTrue == "True"
PyFalse == "False"
None == "None"
\* the truth value Python's "if offset:" gives an argument
Truthy(v) == v = PyTrue

\* ------------------------------------------------------------ rationals
RECURSIVE Gcd(_, _)
Gcd(a, b) == IF b = 0 THEN a ELSE Gcd(b, a % b)

Abs(a) == IF a < 0 THEN -a ELSE a

Norm(n, d) ==
    LET g == Gcd(Abs(n), Abs(d))
        s == IF d < 0 THEN -1 ELSE 1
    IN  <<(s * n) \div g, (s * d) \div g>>

R(n) == <<n, 1>>
Zero == <<0, 1>>
One == <<1, 1>>
NaN == <<0, 0>>
Inf == <<1, 0>>

isnan(a) == a = NaN
isfinite(a) == a[2] # 0

\* IEEE arithmetic: NaN absorbs, an infinity absorbs every finite operand
RAdd(a, b) ==
    IF isfinite(a) /\ isfinite(b)
    THEN IF a[1] = 0 THEN b
         ELSE IF b[1] = 0 THEN a
         ELSE LET g == Gcd(a[2], b[2])
              IN  Norm(a[1] * (b[2] \div g) + b[1] * (a[2] \div g), (a[2] \div g) * b[2])
    ELSE IF isnan(a) \/ isnan(b) THEN NaN
    ELSE IF isfinite(b) THEN a
    ELSE IF isfinite(a) THEN b
    ELSE IF a = b THEN a ELSE NaN

RNeg(a) == <<-a[1], a[2]>>
RSub(a, b) == RAdd(a, RNeg(b))

RMul(a, b) ==
    IF isfinite(a) /\ isfinite(b)
    THEN IF a[1] = 0 \/ b[1] = 0 THEN Zero
         ELSE LET g == Gcd(Abs(a[1]), b[2])
                  h == Gcd(Abs(b[1]), a[2])
              IN  Norm((a[1] \div g) * (b[1] \div h), (a[2] \div h) * (b[2] \div g))
    ELSE IF isnan(a) \/ isnan(b) \/ a = Zero \/ b = Zero THEN NaN
    ELSE IF (a[1] < 0) = (b[1] < 0) THEN Inf ELSE RNeg(Inf)

\* a / b for finite a and finite nonzero b
RDiv(a, b) == RMul(a, Norm(b[2], b[1]))

RLess(a, b) == a[1] * b[2] < b[1] * a[2]

\* ------------------------------------------------------------ vectors and matrices
\* a vector is a sequence of rationals, a matrix a sequence of rows

\* the sequence f as an explicit tuple (evaluated once, not on every access)
Tup(f) == f \o <<>>

RECURSIVE SumOf(_, _, _)
\* f[lo] + ... + f[hi], summed by halves
SumOf(f, lo, hi) ==
    IF lo > hi THEN Zero
    ELSE IF lo = hi THEN f[lo]
    ELSE LET mid == (lo + hi) \div 2
         IN  RAdd(SumOf(f, lo, mid), SumOf(f, mid + 1, hi))

\* numpy.dot of two vectors
Dot(u, v) == SumOf(Tup([k \in 1..Len(u) |-> RMul(u[k], v[k])]), 1, Len(u))

\* numpy.dot of a matrix and a vector
MatVec(M, v) == Tup([r \in 1..Len(M) |-> Dot(M[r], v)])

VecSub(u, v) == Tup([k \in 1..Len(u) |-> RSub(u[k], v[k])])

Column(M, c) == Tup([r \in 1..Len(M) |-> M[r][c]])

Transpose(M, ncols) == Tup([c \in 1..ncols |-> Column(M, c)])

ZeroVec(n) == Tup([k \in 1..n |-> Zero])

\* a[mask] of numpy: the entries (rows) of a where mask holds, in order
Masked(a, mask) ==
    LET kept == {k \in 1..Len(a) : mask[k]}
        before(k) == Cardinality({j \in kept : j < k})
    IN  Tup([i \in 1..Cardinality(kept) |-> a[CHOOSE k \in kept : before(k) = i - 1]])

\* the first row at or below prow whose entry in column col is nonzero, or 0
PivotRow(M, prow, col) ==
    LET cand == {r \in prow..Len(M) : M[r][col] # Zero}
    IN  IF cand = {} THEN 0 ELSE CHOOSE r \in cand : \A q \in cand : r <= q

\* One step of Gauss-Jordan elimination, on column col, of the state
\* [m |-> matrix, piv |-> pivot columns so far]: the rows 1..Len(piv) are reduced
ReduceStep(st, ncols, col) ==
    LET M == st.m
        prow == Len(st.piv) + 1
        p == PivotRow(M, prow, col)
    IN  IF prow > Len(M) \/ p = 0 THEN st
        ELSE LET prv == Tup([c \in 1..ncols |-> RDiv(M[p][c], M[p][col])])
                 rowAt(r) == IF r = prow THEN prv
                             ELSE LET src == IF r = p THEN M[prow] ELSE M[r]
                                  IN  IF src[col] = Zero THEN src
                                      ELSE Tup([c \in 1..ncols |->
                                              RSub(src[c], RMul(src[col], prv[c]))])
             IN  [m |-> Tup([r \in 1..Len(M) |-> rowAt(r)]), piv |-> Append(st.piv, col)]

\* the steps on the columns lo..hi in order (composed by halves)
RECURSIVE ReduceCols(_, _, _, _)
ReduceCols(st, ncols, lo, hi) ==
    IF lo > hi THEN st
    ELSE IF lo = hi THEN ReduceStep(st, ncols, lo)
    ELSE LET mid == (lo + hi) \div 2
             left == ReduceCols(st, ncols, lo, mid)
         IN  IF Len(left.piv) >= 0 THEN ReduceCols(left, ncols, mid + 1, hi) ELSE st

\* Gauss-Jordan elimination: [m |-> reduced row echelon form, piv |-> pivot columns]
Reduce(M, ncols) == ReduceCols([m |-> M, piv |-> <<>>], ncols, 1, ncols)

\* the solution of the nonsingular square system G x = h
Solve(G, h) ==
    LET n == Len(G)
        aug == Tup([r \in 1..n |-> Append(G[r], h[r])])
        red == Reduce(aug, n + 1).m
    IN  Tup([k \in 1..n |-> red[k][n + 1]])

\* the Gram matrix M M^T of the rows of M
Gram(M) == Tup([r \in 1..Len(M) |-> Tup([c \in 1..Len(M) |-> Dot(M[r], M[c])])])

\* The minimum-norm least-squares solution x of A x = b (A has ncols columns):
\* with the rank factorisation A = B C (B the pivot columns of A, C the
\* nonzero rows of its reduced echelon form),
\*   x = C^T (C C^T)^-1 (B^T B)^-1 B^T b.
\* A system without rows, or of rank 0, has the solution 0.
\* (The tests on the lengths hold always: they fix the order of evaluation.)
MinNormLstsq(A, ncols, b) ==
    LET back(C, v) ==
            IF Len(v) = Len(C) THEN MatVec(Transpose(C, ncols), v) ELSE ZeroVec(ncols)
        inner(C, u) ==
            IF Len(u) = Len(C) THEN back(C, Solve(Gram(C), u)) ELSE ZeroVec(ncols)
        outer(C, Bt) == inner(C, Solve(Gram(Bt), MatVec(Bt, b)))
        factors(red) ==
            IF Len(red.piv) = 0 THEN ZeroVec(ncols)
            ELSE outer(SubSeq(red.m, 1, Len(red.piv)),
                       Tup([k \in 1..Len(red.piv) |-> Column(A, red.piv[k])]))
    IN  IF Len(A) = 0 THEN ZeroVec(ncols) ELSE factors(Reduce(A, ncols))

\* the i-th smallest entry of the vector s of finite values
Smallest(s, i) ==
    LET v == CHOOSE w \in {s[k] : k \in 1..Len(s)} :
                 /\ Cardinality({k \in 1..Len(s) : RLess(s[k], w)}) < i
                 /\ Cardinality({k \in 1..Len(s) : ~RLess(w, s[k])}) >= i
    IN  v

\* numpy.median of a vector of finite values: the middle value, or the mean
\* of the two middle values; NaN for an empty vector
median(s) ==
    LET n == Len(s)
    IN  IF n = 0 THEN NaN
        ELSE IF n % 2 = 1 THEN Smallest(s, (n + 1) \div 2)
        ELSE RDiv(RAdd(Smallest(s, n \div 2), Smallest(s, n \div 2 + 1)), R(2))

\* ------------------------------------------------------------ results and errors
\* A call either returns a value or raises an exception
NoExc == [type |-> "", msg |-> ""]
Ok(v) == [exc |-> NoExc, val |-> v]
Raise(t, m) == [exc |-> [type |-> t, msg |-> m], val |-> <<>>]
Raised(r) == r.exc # NoExc

\* class OrbitalError and the messages the module raises it with
OrbitalError(m) == Raise("OrbitalError", m)
MsgInvalidDegree == "Invalid degree of %s for orbital correction"
MsgUnknownMethod == "Unknown method: '%s', need INDEPENDENT or NETWORK method"
MsgMismatchCount == "Mismatching # ifgs and # multilooked ifgs"
MsgMismatchTypes == "Mismatching types in multilooked ifgs arg"
MsgInvalidModelDegree == "Invalid orbital model degree: %s"
MsgInvalidDegreeArg == "Invalid degree argument"
MsgInvalidNumIfgs == "Invalid number of Ifgs: %s"

\* ------------------------------------------------------------ interferograms
\* An Ifg: phase_data is the raster flattened row-major (its shape is
\* (nrows, ncols)); has_phase_data is hasattr(i, 'phase_data').
num_cells(ifg) == ifg.nrows * ifg.ncols

\* ------------------------------------------------------------ get_num_params
\* get_num_params with "offset is not False" in place of "offset is True" at
\* line 111, so that offset=None also adds a parameter: C1 tells it apart
get_num_params_unless_false(degree, offset) ==
    IF degree \notin {PLANAR, QUADRATIC, PART_CUBIC}
    THEN Raise("OrbitalError", MsgInvalidModelDegree)
    ELSE Ok((IF degree = PLANAR THEN 2 ELSE IF degree = QUADRATIC THEN 5 ELSE 6)
            + (IF offset # PyFalse THEN 1 ELSE 0))

get_num_params(degree, offset) ==
    LET base == IF degree = PLANAR THEN 2
                ELSE IF degree = QUADRATIC THEN 5
                ELSE IF degree = PART_CUBIC THEN 6
                ELSE 0
    IN  IF degree \notin {PLANAR, QUADRATIC, PART_CUBIC}
        THEN OrbitalError(MsgInvalidModelDegree)
        ELSE Ok(IF offset = PyTrue THEN base + 1 ELSE base)

\* ------------------------------------------------------------ get_design_matrix
\* meshgrid(range(ncols), range(nrows)) reshaped to num_cells and scaled:
\* the x and y distance of the k-th cell (k from 1) in row-major order
CellX(ifg, k) == ((k - 1) % ifg.ncols) * ifg.x_size
CellY(ifg, k) == ((k - 1) \div ifg.ncols) * ifg.y_size

\* the row of the design matrix for the cell at distances (x, y)
DesignRow(x, y, degree, offset) ==
    LET cols == IF degree = PLANAR THEN <<x, y>>
                ELSE IF degree = QUADRATIC THEN <<x * x, y * y, x * y, x, y>>
                ELSE <<x * (y * y), x * x, y * y, x * y, x, y>>
        row == IF offset = PyTrue THEN Append(cols, 1) ELSE cols
    IN  Tup([c \in 1..Len(row) |-> R(row[c])])

\* get_design_matrix with line 219 run whatever offset is: C2 tells it apart
get_design_matrix_always_ones(ifg, degree, offset) ==
    IF degree \notin {PLANAR, QUADRATIC, PART_CUBIC}
    THEN Raise("OrbitalError", MsgInvalidDegreeArg)
    ELSE Ok(Tup([k \in 1..(ifg.nrows * ifg.ncols) |->
                   LET row == DesignRow(CellX(ifg, k), CellY(ifg, k), degree, offset)
                   IN  [row EXCEPT ![Len(row)] = One]]))

get_design_matrix(ifg, degree, offset) ==
    IF degree \notin {PLANAR, QUADRATIC, PART_CUBIC}
    THEN OrbitalError(MsgInvalidDegreeArg)
    ELSE Ok(Tup([k \in 1..num_cells(ifg) |->
                   DesignRow(CellX(ifg, k), CellY(ifg, k), degree, offset)]))

\* ------------------------------------------------------------ epoch indexing
\* (pyrate.algorithm: the epoch-indexing collaborator)
RECURSIVE Distinct(_)
\* the distinct elements of a sequence in the order of their first occurrence
Distinct(s) ==
    IF s = <<>> THEN <<>>
    ELSE LET d == Distinct(SubSeq(s, 1, Len(s) - 1))
             e == s[Len(s)]
         IN  IF \E k \in 1..Len(d) : d[k] = e THEN d ELSE Append(d, e)

\* master_slave_ids(dates): each date's 0-based position among the distinct dates
master_slave_ids(dates) ==
    LET d == Distinct(dates)
    IN  [e \in {d[k] : k \in 1..Len(d)} |-> (CHOOSE k \in 1..Len(d) : d[k] = e) - 1]

Masters(ifgs) == Tup([k \in 1..Len(ifgs) |-> ifgs[k].master])
Slaves(ifgs) == Tup([k \in 1..Len(ifgs) |-> ifgs[k].slave])

\* get_all_epochs(ifgs): the master dates followed by the slave dates
get_all_epochs(ifgs) == Masters(ifgs) \o Slaves(ifgs)

\* get_epoch_count(ifgs): the number of distinct epochs
get_epoch_count(ifgs) == Len(Distinct(get_all_epochs(ifgs)))

\* ------------------------------------------------------------ get_network_design_matrix
\* line 251 with the slaves listed before the masters: C9 tells it apart
ndm_ids_slaves_first(ifgs) == master_slave_ids(Slaves(ifgs) \o Masters(ifgs))

\* the epoch -> column-block index the network design matrix is laid out by
ndm_ids(ifgs) == master_slave_ids(Masters(ifgs) \o Slaves(ifgs))

\* One entry of the network design matrix for interferogram i (from 0), cell k
\* and column c0 (from 0): the zeros of the initial matrix, overwritten by -tmp
\* in the master's block, then by tmp in the slave's block, then by the 1 of
\* the interferogram's offset column.
NdmEntry(tmp, i, k, c0, m, s, ncoef, offset, offset_col) ==
    IF Truthy(offset) /\ c0 = offset_col + i THEN One
    ELSE IF s <= c0 /\ c0 < s + ncoef THEN tmp[k][c0 - s + 1]
    ELSE IF m <= c0 /\ c0 < m + ncoef THEN RNeg(tmp[k][c0 - m + 1])
    ELSE Zero

get_network_design_matrix(ifgs, degree, offset) ==
    IF degree \notin {PLANAR, QUADRATIC, PART_CUBIC}
    THEN OrbitalError(MsgInvalidDegreeArg)
    ELSE IF Len(ifgs) < 1 THEN OrbitalError(MsgInvalidNumIfgs)
    ELSE LET nifgs == Len(ifgs)
             nepochs == get_epoch_count(ifgs)
             ncoef == get_num_params(degree, None).val
             nc == num_cells(ifgs[1])
             ncolumns == ncoef * nepochs + (IF Truthy(offset) THEN nifgs ELSE 0)
             ids == ndm_ids(ifgs)
             offset_col == nepochs * ncoef
             tmp == get_design_matrix(ifgs[1], degree, PyFalse).val
         IN  Ok(Tup([r \in 1..(nc * nifgs) |->
                   LET i == (r - 1) \div nc
                       k == ((r - 1) % nc) + 1
                       m == ids[ifgs[i + 1].master] * ncoef
                       s == ids[ifgs[i + 1].slave] * ncoef
                   IN  Tup([c \in 1..ncolumns |->
                          NdmEntry(tmp, i, k, c - 1, m, s, ncoef, offset, offset_col)])]))

\* ------------------------------------------------------------ _independent_correction
\* scipy.linalg.lstsq(a, b)[0]: ValueError for a non-finite entry (NaNs are
\* filtered out before the call, an infinity is not), else the minimum-norm
\* least-squares solution
lstsq(A, ncols, b) ==
    IF \E k \in 1..Len(b) : ~isfinite(b[k])
    THEN Raise("ValueError", "array must not contain infs or NaNs")
    ELSE Ok(MinNormLstsq(A, ncols, b))

NotNan(v) == Tup([k \in 1..Len(v) |-> ~isnan(v[k])])

\* lines 125-134 of _independent_correction: the correction fitted to the
\* interferogram, before line 135 subtracts it
independent_fit(ifg, degree, offset) ==
    LET vphase == ifg.phase_data
        forward(dm, model) == IF Raised(model) THEN model ELSE Ok(MatVec(dm, model.val))
        fit(dm) ==
            forward(dm, lstsq(Masked(dm, NotNan(vphase)), Len(dm[1]),
                              Masked(vphase, NotNan(vphase))))
        build(dmr) == IF Raised(dmr) THEN dmr ELSE fit(dmr.val)
    IN  build(get_design_matrix(ifg, degree, offset))

\* _independent_correction with "+=" in place of "-=" at line 135: C7 tells
\* it apart
_independent_correction_added(ifg, degree, offset) ==
    LET vphase == ifg.phase_data
        added(dm, model) ==
            IF Raised(model) THEN model
            ELSE Ok([ifg EXCEPT !.phase_data =
                        VecSub(vphase, MatVec(dm, [k \in 1..Len(model.val) |->
                                                     RNeg(model.val[k])]))])
        fit(dm) ==
            added(dm, lstsq(Masked(dm, NotNan(vphase)), Len(dm[1]),
                            Masked(vphase, NotNan(vphase))))
        build(dmr) == IF Raised(dmr) THEN dmr ELSE fit(dmr.val)
    IN  build(get_design_matrix(ifg, degree, offset))

\* the interferogram after the correction, or the exception raised before
\* line 135 writes to it
_independent_correction(ifg, degree, offset) ==
    LET vphase == ifg.phase_data
        \* lines 134-135
        subtract(dm, model) ==
            IF Raised(model) THEN model
            ELSE Ok([ifg EXCEPT !.phase_data = VecSub(vphase, MatVec(dm, model.val))])
        \* lines 129-131: tmp = dm[~isnan(vphase)], fd = vphase[~isnan(vphase)]
        fit(dm) ==
            subtract(dm, lstsq(Masked(dm, NotNan(vphase)), Len(dm[1]),
                               Masked(vphase, NotNan(vphase))))
        \* line 126
        build(dmr) == IF Raised(dmr) THEN dmr ELSE fit(dmr.val)
    IN  build(get_design_matrix(ifg, degree, offset))

\* ------------------------------------------------------------ _network_correction
RECURSIVE Flatten(_)
\* vstack of the flattened phase rasters, squeezed to one vector
Flatten(ifgs) ==
    IF ifgs = <<>> THEN <<>>
    ELSE ifgs[1].phase_data \o Flatten(Tail(ifgs))

\* the epoch -> coefficient-block index the solved vector is partitioned by
correction_ids(ifgs) == master_slave_ids(get_all_epochs(ifgs))

\* model[i:i+ncoef] for block j (from 0): a slice past the end is cut short
CoefBlock(model, j, ncoef) ==
    LET lo == j * ncoef + 1
        hi == IF (j + 1) * ncoef < Len(model) THEN (j + 1) * ncoef ELSE Len(model)
    IN  SubSeq(model, lo, hi)

\* m_ifgs is <<>> for None, <<seq>> for a given sequence.  The sequence of
\* interferograms after the correction, or the exception raised before any
\* of them is written.
_network_correction(ifgs, degree, offset, m_ifgs) ==
    LET src_ifgs == IF m_ifgs = <<>> THEN ifgs ELSE m_ifgs[1]
        vphase == Flatten(src_ifgs)
        ncoef == get_num_params(degree, None).val
        ids == correction_ids(ifgs)
        \* lines 172-173
        shifted(i, orb, med) ==
            [i EXCEPT !.phase_data =
                Tup([k \in 1..Len(orb) |-> RSub(i.phase_data[k], RAdd(orb[k], med))])]
        \* lines 171, 175
        subtract(i, orb, t) ==
            IF Truthy(offset) THEN shifted(i, orb, median(Masked(t, NotNan(t))))
            ELSE [i EXCEPT !.phase_data = t]
        \* lines 167-168
        corrected(i, dm, model) ==
            LET with(orb) == subtract(i, orb, VecSub(i.phase_data, orb))
            IN  with(MatVec(dm, VecSub(CoefBlock(model, ids[i.slave], ncoef),
                                       CoefBlock(model, ids[i.master], ncoef))))
        \* lines 164, 166
        apply(dm, model) ==
            IF Len(model) >= 0
            THEN Ok(Tup([k \in 1..Len(ifgs) |-> corrected(ifgs[k], dm, model)]))
            ELSE Ok(ifgs)
        \* lines 155-157: tmp = ndm[~isnan(vphase)], fd = vphase[~isnan(vphase)]
        solve(ndm) ==
            IF Raised(ndm) THEN ndm
            ELSE apply(get_design_matrix(ifgs[1], degree, PyFalse).val,
                       MinNormLstsq(Masked(ndm.val, NotNan(vphase)), Len(ndm.val[1]),
                                    Masked(vphase, NotNan(vphase))))
    IN  solve(get_network_design_matrix(src_ifgs, degree, offset))

\* ------------------------------------------------------------ _validate_mlooked
\* _validate_mlooked without lines 92-95 (the length is checked, the elements
\* are not): C5 tells it apart
_validate_mlooked_length_only(mlooked, ifgs) ==
    IF Len(mlooked) # Len(ifgs) THEN Raise("OrbitalError", MsgMismatchCount)
    ELSE Ok(<<>>)

_validate_mlooked(mlooked, ifgs) ==
    IF Len(mlooked) # Len(ifgs) THEN OrbitalError(MsgMismatchCount)
    ELSE IF ~(\A k \in 1..Len(mlooked) : mlooked[k].has_phase_data)
    THEN OrbitalError(MsgMismatchTypes)
    ELSE Ok(<<>>)

\* ------------------------------------------------------------ bounds and inputs
MaxIfgs == 2
MaxEpoch == 3
MaxCalls == 2

Degrees == {PLANAR, QUADRATIC, PART_CUBIC, "CUBIC"}
Methods == {INDEPENDENT_METHOD, NETWORK_METHOD, "MST_METHOD"}
ValidDegrees == {PLANAR, QUADRATIC, PART_CUBIC}

\* raster geometries: shape and cell sizes
Grids == {[nrows |-> 2, ncols |-> 2, x_size |-> 1, y_size |-> 1],
          [nrows |-> 2, ncols |-> 4, x_size |-> 1, y_size |-> -1]}

\* the geometry of the multilooked copy: two looks in x
Looked(g) == [g EXCEPT !.ncols = g.ncols \div 2, !.x_size = g.x_size * 2]

\* polynomial trends <<x*y^2, x^2, y^2, x*y, x, y, 1>> a raster is drawn from
TrendPlanar == <<0, 0, 0, 0, 3, 2, 0>>
TrendQuad == <<0, 1, 0, 1, 0, -1, 1>>
Trends == {TrendPlanar, TrendQuad}

\* the value of trend t at the cell k of geometry g
TrendAt(g, k, t) ==
    LET x == CellX(g, k)
        y == CellY(g, k)
    IN  t[1] * x * y * y + t[2] * x * x + t[3] * y * y + t[4] * x * y
        + t[5] * x + t[6] * y + t[7]

\* the phase rasters an interferogram is drawn with: an exact trend, an exact
\* trend with a no-data cell, a trend with a residual and a no-data cell, and
\* a trend with an infinite cell
RasterKinds == {"planar", "planar_nan", "quad", "noisy", "inf"}
FiniteKinds == {"planar_nan", "noisy"}

Raster(g, kind) ==
    Tup([k \in 1..(g.nrows * g.ncols) |->
        IF kind = "planar" THEN R(TrendAt(g, k, TrendPlanar))
        ELSE IF kind = "planar_nan"
             THEN IF k = 2 THEN NaN ELSE R(TrendAt(g, k, TrendPlanar))
        ELSE IF kind = "quad" THEN R(TrendAt(g, k, TrendQuad))
        ELSE IF kind = "noisy"
             THEN IF k = g.nrows * g.ncols THEN NaN
                  ELSE R(TrendAt(g, k, TrendPlanar) + (IF k % 2 = 1 THEN k ELSE 0))
        ELSE IF k = 1 THEN Inf ELSE R(TrendAt(g, k, TrendPlanar))])

MkIfg(g, kind, pair) ==
    [nrows |-> g.nrows, ncols |-> g.ncols, x_size |-> g.x_size, y_size |-> g.y_size,
     master |-> pair[1], slave |-> pair[2],
     phase_data |-> Raster(g, kind), has_phase_data |-> TRUE]

\* the multilooked copy of an interferogram: the same pair at the coarser
\* geometry, its raster without a no-data cell
Coarse(g, kind, pair) ==
    MkIfg(Looked(g), IF kind = "planar_nan" THEN "planar" ELSE "quad", pair)

\* epoch pairs of the k-th interferogram of a connected network
NetPairs(k) == {<<k, k + 1>>, <<k + 1, k>>, <<1, k + 1>>}
AllPairs == {p \in (1..MaxEpoch) \X (1..MaxEpoch) : p[1] <= p[2]}

\* A call's arguments: [ifgs, mlooked, degree, method, offset], mlooked being
\* <<>> for None and <<seq>> for a sequence
MlookedArgs(g, kinds, pairs) ==
    LET n == Len(kinds)
        full == Tup([k \in 1..n |-> Coarse(g, kinds[k], pairs[k])])
    IN  {<<>>, <<full>>, <<SubSeq(full, 1, n - 1)>>,
         <<[full EXCEPT ![n].has_phase_data = FALSE]>>}

Args(g, kinds, pairs, ml, degree, method, offset) ==
    [ifgs |-> Tup([k \in 1..Len(kinds) |-> MkIfg(g, kinds[k], pairs[k])]),
     mlooked |-> ml, degree |-> degree, method |-> method, offset |-> offset]

ChainPairs(n) == Tup([k \in 1..n |-> <<k, k + 1>>])

\* independent method: every raster kind, both geometries
IndependentInputs ==
    {Args(g, kinds, ChainPairs(Len(kinds)), <<>>, d, INDEPENDENT_METHOD, o) :
        g \in Grids, d \in ValidDegrees, o \in {PyTrue, PyFalse},
        kinds \in UNION {[1..n -> RasterKinds] : n \in 1..MaxIfgs}}

\* network method: finite rasters, every network, every mlooked argument
NetworkInputsFor(g, kinds, pairs) ==
    IF Len(kinds) # Len(pairs) THEN {} ELSE
    {Args(g, kinds, pairs, ml, d, NETWORK_METHOD, o) :
        ml \in MlookedArgs(g, kinds, pairs), d \in ValidDegrees, o \in {PyTrue, PyFalse}}

\* the connected networks of n interferograms
Nets(n) ==
    {p \in [1..n -> UNION {NetPairs(k) : k \in 1..n}] : \A k \in 1..n : p[k] \in NetPairs(k)}

NetGrid == CHOOSE g \in Grids : g.ncols = 2

NetworkInputs ==
    UNION {NetworkInputsFor(NetGrid, kinds, pairs) :
             kinds \in UNION {[1..n -> FiniteKinds] : n \in 1..MaxIfgs},
             pairs \in UNION {Nets(n) : n \in 1..MaxIfgs}}

\* an invalid degree or an unknown method: raised before any raster is read
RejectedInputsFor(g, kinds, pairs) ==
    {Args(g, kinds, pairs, ml, d, m, o) :
        ml \in MlookedArgs(g, kinds, pairs), d \in Degrees, m \in Methods,
        o \in {PyTrue, PyFalse}}

RejectedInputs ==
    {a \in UNION {RejectedInputsFor(NetGrid, [k \in 1..n |-> "noisy"], ChainPairs(n)) :
                    n \in 1..MaxIfgs} :
        a.degree \notin ValidDegrees \/ a.method \notin {INDEPENDENT_METHOD, NETWORK_METHOD}}

Inputs == IndependentInputs \cup NetworkInputs \cup RejectedInputs

\* inputs of the matrix builders: every degree and offset, every epoch pair
BuilderInputs ==
    {Args(g, [k \in 1..Len(pairs) |-> "planar_nan"], pairs, <<>>, d, INDEPENDENT_METHOD, o) :
        g \in Grids, d \in Degrees, o \in {PyTrue, PyFalse},
        pairs \in UNION {[1..n -> AllPairs] : n \in 1..MaxIfgs}}

\* ------------------------------------------------------------ state
VARIABLES
    ifgs,       \* the interferograms, corrected in place
    mlooked,    \* <<>> (None) or <<the multilooked interferograms>>
    degree,     \* the arguments of orbital_correction
    method,
    offset,
    pc,         \* where orbital_correction is: "idle" when no call is running
    i,          \* the interferogram the independent loop is at (from 1)
    exc,        \* the exception the last call raised, NoExc when it returned
    ncalls,     \* calls of orbital_correction started
    snaps,      \* history: the phase rasters of ifgs at the start of each call
    msnap,      \* history: the phase rasters of mlooked at the start
    work,       \* history: design matrices built and solves run by the current call
    idlog,      \* history: the epoch index maps the last network correction used
    ret,        \* the last call of a builder: [fn, args, res]
    workers,    \* per interferogram, a concurrent _independent_correction: [pc, correction]
    flags,      \* per interferogram, its ORBITAL_ERROR metadata item: None or META_REMOVED
    dpc,        \* where remove_orbital_error is: "idle" when no call is running
    dlog        \* history of remove_orbital_error: [written, wrote, raised, calls, start, before]

vars == <<ifgs, mlooked, degree, method, offset, pc, i, exc, ncalls, snaps, msnap,
          work, idlog, ret, workers, flags, dpc, dlog>>

Phases(seq) == Tup([k \in 1..Len(seq) |-> seq[k].phase_data])
MPhases(ml) == IF ml = <<>> THEN <<>> ELSE Phases(ml[1])

NoWork == [dms |-> 0, solves |-> 0]
NoIds == [ndm |-> <<>>, coef |-> <<>>]
NoRet == [fn |-> "", args |-> <<>>, res |-> Ok(<<>>)]

\* no concurrent correction is running
NoWorkers(n) == Tup([k \in 1..n |-> [pc |-> "idle", correction |-> <<>>]])

\* run_pyrate.py:28-29
META_ORBITAL == "ORBITAL_ERROR"
META_REMOVED == "REMOVED"

\* no interferogram carries the ORBITAL_ERROR item
NoFlags(n) == Tup([k \in 1..n |-> None])

\* remove_orbital_error has not run.  written counts, per interferogram, the
\* corrections that wrote its phase: an interferogram that carries the item
\* at the start was corrected once by the run that set it.
StartLog(f, phases) ==
    [written |-> Tup([k \in 1..Len(f) |-> IF f[k] = META_REMOVED THEN 1 ELSE 0]),
     wrote |-> {}, raised |-> NoExc, calls |-> 0, start |-> f, before |-> phases]

\* the state before any call, for the arguments a and the metadata items f
StartAt(a, f) ==
        /\ workers = NoWorkers(Len(a.ifgs))
        /\ flags = f
        /\ dpc = "idle"
        /\ dlog = StartLog(f, Phases(a.ifgs))
        /\ ifgs = a.ifgs
        /\ mlooked = a.mlooked
        /\ degree = a.degree
        /\ method = a.method
        /\ offset = a.offset
        /\ pc = "idle"
        /\ i = 0
        /\ exc = NoExc
        /\ ncalls = 0
        /\ snaps = <<>>
        /\ msnap = MPhases(a.mlooked)
        /\ work = NoWork
        /\ idlog = NoIds
        /\ ret = NoRet

InitWith(inputs) == \E a \in inputs : StartAt(a, NoFlags(Len(a.ifgs)))

Init == InitWith(Inputs)

args == <<mlooked, degree, method, offset, msnap>>

\* the state outside orbital_correction and the builders
outside == <<workers, flags, dpc, dlog>>

\* ------------------------------------------------------------ orbital_correction
\* the caller invokes orbital_correction(ifgs, degree, method, mlooked, offset)
Call ==
    /\ pc = "idle"
    /\ ncalls < MaxCalls
    /\ pc' = "check_degree"
    /\ ncalls' = ncalls + 1
    /\ snaps' = Append(snaps, Phases(ifgs))
    /\ exc' = NoExc
    /\ work' = NoWork
    /\ idlog' = NoIds
    /\ i' = 0
    /\ UNCHANGED <<ifgs, args, outside, ret>>

\* orbital_correction without lines 66-68: C6 tells it apart
CheckDegree_skipped ==
    /\ pc = "check_degree"
    /\ pc' = "dispatch"
    /\ UNCHANGED <<ifgs, args, outside, i, exc, ncalls, snaps, work, idlog, ret>>

\* lines 66-68
CheckDegree ==
    /\ pc = "check_degree"
    /\ IF degree \notin {PLANAR, QUADRATIC, PART_CUBIC}
       THEN /\ exc' = OrbitalError(MsgInvalidDegree).exc
            /\ pc' = "idle"
       ELSE /\ exc' = exc
            /\ pc' = "dispatch"
    /\ UNCHANGED <<ifgs, args, outside, i, ncalls, snaps, work, idlog, ret>>

\* orbital_correction returning at line 80 without raising: C4 tells it apart
Dispatch_silent ==
    /\ pc = "dispatch"
    /\ IF method = NETWORK_METHOD
       THEN /\ pc' = IF mlooked = <<>> THEN "network" ELSE "validate"
            /\ i' = i
       ELSE IF method = INDEPENDENT_METHOD
       THEN /\ pc' = "loop"
            /\ i' = 1
       ELSE /\ pc' = "idle"
            /\ i' = i
    /\ UNCHANGED <<ifgs, args, outside, exc, ncalls, snaps, work, idlog, ret>>

\* lines 70-71, 73, 77, 80-82
Dispatch ==
    /\ pc = "dispatch"
    /\ IF method = NETWORK_METHOD
       THEN /\ pc' = IF mlooked = <<>> THEN "network" ELSE "validate"
            /\ UNCHANGED <<exc, i>>
       ELSE IF method = INDEPENDENT_METHOD
       THEN /\ pc' = "loop"
            /\ i' = 1
            /\ exc' = exc
       ELSE /\ exc' = OrbitalError(MsgUnknownMethod).exc
            /\ pc' = "idle"
            /\ i' = i
    /\ UNCHANGED <<ifgs, args, outside, ncalls, snaps, work, idlog, ret>>

\* line 74
ValidateMlooked ==
    /\ pc = "validate"
    /\ \E r \in {_validate_mlooked(mlooked[1], ifgs)} :
           IF Raised(r)
           THEN /\ exc' = r.exc
                /\ pc' = "idle"
           ELSE /\ exc' = exc
                /\ pc' = "network"
    /\ UNCHANGED <<ifgs, args, outside, i, ncalls, snaps, work, idlog, ret>>

\* orbital_correction with a guard that skips the network correction of
\* interferograms an earlier call has corrected: C8 tells it apart
NetworkCorrection_once ==
    /\ pc = "network"
    /\ IF ncalls > 1
       THEN UNCHANGED <<ifgs, exc, work, idlog>>
       ELSE \E r \in {_network_correction(ifgs, degree, offset, mlooked)} :
               IF Raised(r)
               THEN /\ exc' = r.exc
                    /\ UNCHANGED <<ifgs, work, idlog>>
               ELSE /\ ifgs' = r.val
                    /\ exc' = exc
                    /\ work' = [dms |-> work.dms + 3, solves |-> work.solves + 1]
                    /\ idlog' = [ndm |-> ndm_ids(IF mlooked = <<>> THEN ifgs ELSE mlooked[1]),
                                 coef |-> correction_ids(ifgs)]
    /\ pc' = "idle"
    /\ UNCHANGED <<args, outside, i, ncalls, snaps, ret>>

\* lines 72 and 75: the whole of _network_correction
NetworkCorrection ==
    /\ pc = "network"
    /\ \E r \in {_network_correction(ifgs, degree, offset, mlooked)} :
           IF Raised(r)
           THEN /\ exc' = r.exc
                /\ UNCHANGED <<ifgs, work, idlog>>
           ELSE /\ ifgs' = r.val
                /\ exc' = exc
                /\ work' = [dms |-> work.dms + 3, solves |-> work.solves + 1]
                /\ idlog' = [ndm |-> ndm_ids(IF mlooked = <<>> THEN ifgs ELSE mlooked[1]),
                                coef |-> correction_ids(ifgs)]
    /\ pc' = "idle"
    /\ UNCHANGED <<args, outside, i, ncalls, snaps, ret>>

\* the loop of lines 78-79 with a rollback of the earlier interferograms when
\* a correction fails: C10 tells it apart
IndependentStep_rollback ==
    /\ pc = "loop"
    /\ i <= Len(ifgs)
    /\ \E r \in {_independent_correction(ifgs[i], degree, offset)} :
           IF Raised(r)
           THEN /\ exc' = r.exc
                /\ pc' = "idle"
                /\ work' = [work EXCEPT !.dms = @ + 1]
                /\ ifgs' = Tup([k \in 1..Len(ifgs) |->
                                  [ifgs[k] EXCEPT !.phase_data = snaps[ncalls][k]]])
                /\ i' = i
           ELSE /\ ifgs' = [ifgs EXCEPT ![i] = r.val]
                /\ i' = i + 1
                /\ work' = [dms |-> work.dms + 1, solves |-> work.solves + 1]
                /\ UNCHANGED <<exc, pc>>
    /\ UNCHANGED <<args, outside, ncalls, snaps, idlog, ret>>

\* lines 78-79: one iteration of the loop, the whole of _independent_correction
IndependentStep ==
    /\ pc = "loop"
    /\ i <= Len(ifgs)
    /\ \E r \in {_independent_correction(ifgs[i], degree, offset)} :
           IF Raised(r)
           THEN /\ exc' = r.exc
                /\ pc' = "idle"
                /\ work' = [work EXCEPT !.dms = @ + 1]
                /\ UNCHANGED <<ifgs, i>>
           ELSE /\ ifgs' = [ifgs EXCEPT ![i] = r.val]
                /\ i' = i + 1
                /\ work' = [dms |-> work.dms + 1, solves |-> work.solves + 1]
                /\ UNCHANGED <<exc, pc>>
    /\ UNCHANGED <<args, outside, ncalls, snaps, idlog, ret>>

\* line 78: the loop is exhausted and orbital_correction returns
LoopExit ==
    /\ pc = "loop"
    /\ i > Len(ifgs)
    /\ pc' = "idle"
    /\ UNCHANGED <<ifgs, args, outside, i, exc, ncalls, snaps, work, idlog, ret>>

Next ==
    \/ Call
    \/ CheckDegree
    \/ Dispatch
    \/ ValidateMlooked
    \/ NetworkCorrection
    \/ IndependentStep
    \/ LoopExit

Spec == Init /\ [][Next]_vars

\* ------------------------------------------------------------ the loop of lines 78-79, unordered
\* The interferograms are handed to concurrent workers, each running
\* _independent_correction on its own interferogram; a worker is preempted
\* between the fit (lines 125-134) and the in-place subtraction (line 135).
\* One orbital_correction call: the loop runs once over the interferograms.
Fork ==
    /\ pc = "idle"
    /\ method = INDEPENDENT_METHOD
    /\ degree \in {PLANAR, QUADRATIC, PART_CUBIC}
    /\ \A k \in 1..Len(ifgs) : workers[k].pc = "idle"
    /\ ncalls = 0
    /\ ncalls' = ncalls + 1
    /\ snaps' = Append(snaps, Phases(ifgs))
    /\ workers' = Tup([k \in 1..Len(ifgs) |-> [pc |-> "start", correction |-> <<>>]])
    /\ UNCHANGED <<ifgs, args, pc, i, exc, work, idlog, ret, flags, dpc, dlog>>

\* lines 125-134 with the correction kept in one buffer that the workers
\* share: C11 tells it apart
Fit_shared ==
    \E k \in 1..Len(ifgs) :
        /\ workers[k].pc = "start"
        /\ \E r \in {independent_fit(ifgs[k], degree, offset)} :
               workers' = IF Raised(r)
                          THEN [workers EXCEPT ![k] = [pc |-> "failed", correction |-> <<>>]]
                          ELSE Tup([j \in 1..Len(ifgs) |->
                                  IF j = k THEN [pc |-> "fitted", correction |-> r.val]
                                  ELSE IF workers[j].pc = "fitted"
                                       THEN [pc |-> "fitted", correction |-> r.val]
                                       ELSE workers[j]])
        /\ UNCHANGED <<ifgs, args, pc, i, exc, ncalls, snaps, work, idlog, ret,
                       flags, dpc, dlog>>

\* lines 125-134, by the worker of interferogram k
Fit ==
    \E k \in 1..Len(ifgs) :
        /\ workers[k].pc = "start"
        /\ \E r \in {independent_fit(ifgs[k], degree, offset)} :
               workers' = [workers EXCEPT ![k] =
                              IF Raised(r) THEN [pc |-> "failed", correction |-> <<>>]
                              ELSE [pc |-> "fitted", correction |-> r.val]]
        /\ UNCHANGED <<ifgs, args, pc, i, exc, ncalls, snaps, work, idlog, ret,
                       flags, dpc, dlog>>

\* line 135, by the worker of interferogram k
Write ==
    \E k \in 1..Len(ifgs) :
        /\ workers[k].pc = "fitted"
        /\ ifgs' = [ifgs EXCEPT ![k].phase_data = VecSub(@, workers[k].correction)]
        /\ workers' = [workers EXCEPT ![k] = [pc |-> "done", correction |-> <<>>]]
        /\ UNCHANGED <<args, pc, i, exc, ncalls, snaps, work, idlog, ret, flags, dpc, dlog>>

ParInit == InitWith(IndependentInputs)

ParNext ==
    \/ Fork
    \/ Fit
    \/ Write

ParSpec == ParInit /\ [][ParNext]_vars

\* ------------------------------------------------------------ the workflow driver
\* run_pyrate.remove_orbital_error with params[cf.ORBITAL_FIT] set (lines
\* 137-139 return at once otherwise).  The driver reads each interferogram's
\* ORBITAL_ERROR metadata item, calls orbital_correction with the default
\* offset, and sets the item on every interferogram after the call returned.
\* The multilooked copies of prepifg.prepare_ifgs are the mlooked argument of
\* the start state: one copy per interferogram, or None when both looks
\* parameters are 1.  The deletion of the multilooked files (lines 168-172)
\* touches no interferogram and is not part of the state.

MsgPriorDetected == "%s: prior orbital error correction detected"
MsgNoneDetected == "%s: no orbital correction detected"

\* all(flags), line 146
all(f) == \A k \in 1..Len(f) : f[k] # None

\* check_orbital_ifgs, lines 179-192: the exception it raises, NoExc when it
\* returns.  msg is the one the loop of lines 185-190 assigned last.
check_orbital_ifgs(f) ==
    LET count == Cardinality({k \in 1..Len(f) : f[k] = META_REMOVED})
    IN  IF count < Len(f) /\ count > 0
        THEN OrbitalError(IF f[Len(f)] # None THEN MsgPriorDetected
                          ELSE MsgNoneDetected).exc
        ELSE NoExc

\* the arguments the driver can pass
DriverInputs ==
    {a \in Inputs :
        /\ a.offset = PyTrue
        /\ \/ a.mlooked = <<>>
           \/ /\ Len(a.mlooked[1]) = Len(a.ifgs)
              /\ \A k \in 1..Len(a.ifgs) : a.mlooked[1][k].has_phase_data}

DriverInit ==
    \E a \in DriverInputs :
        \E f \in [1..Len(a.ifgs) -> {None, META_REMOVED}] : StartAt(a, Tup(f))

\* the interferograms whose phase the orbital_correction call that just
\* ended has written: those the INDEPENDENT loop went past, or all of them
\* once the NETWORK correction ran
WrittenByCall ==
    {k \in 1..Len(ifgs) : k < i \/ idlog # NoIds}

Entered(log) ==
    [log EXCEPT !.calls = @ + 1, !.start = flags, !.before = Phases(ifgs),
                !.wrote = {}, !.raised = NoExc]

\* lines 144-165: up to the call of orbital_correction
DriverCall ==
    /\ dpc = "idle"
    /\ pc = "idle"
    /\ dlog.calls < MaxCalls
    /\ IF all(flags)
       THEN /\ dlog' = Entered(dlog)
            /\ UNCHANGED <<dpc, pc, ncalls, snaps, exc, work, idlog, i>>
       ELSE IF check_orbital_ifgs(flags) # NoExc
       THEN /\ dlog' = [Entered(dlog) EXCEPT !.raised = check_orbital_ifgs(flags)]
            /\ UNCHANGED <<dpc, pc, ncalls, snaps, exc, work, idlog, i>>
       ELSE /\ dlog' = Entered(dlog)
            /\ dpc' = "in_call"
            /\ pc' = "check_degree"
            /\ ncalls' = ncalls + 1
            /\ snaps' = Append(snaps, Phases(ifgs))
            /\ exc' = NoExc
            /\ work' = NoWork
            /\ idlog' = NoIds
            /\ i' = 0
    /\ UNCHANGED <<ifgs, args, workers, flags, ret>>

\* lines 162-176: orbital_correction has ended.  An exception leaves
\* remove_orbital_error at line 162; otherwise every interferogram gets the item.
DriverReturn ==
    /\ dpc = "in_call"
    /\ pc = "idle"
    /\ dpc' = "idle"
    /\ dlog' = [dlog EXCEPT !.raised = exc, !.wrote = WrittenByCall,
                   !.written = Tup([k \in 1..Len(ifgs) |->
                                      IF k \in WrittenByCall THEN @[k] + 1 ELSE @[k]])]
    /\ flags' = IF exc # NoExc THEN flags
                ELSE Tup([k \in 1..Len(ifgs) |-> META_REMOVED])
    /\ UNCHANGED <<ifgs, args, workers, pc, i, exc, ncalls, snaps, work, idlog, ret>>

DriverNext ==
    \/ DriverCall
    \/ CheckDegree
    \/ Dispatch
    \/ ValidateMlooked
    \/ NetworkCorrection
    \/ IndependentStep
    \/ LoopExit
    \/ DriverReturn

DriverSpec == DriverInit /\ [][DriverNext]_vars

\* ------------------------------------------------------------ the builders, called directly
CallGetNumParams ==
    /\ ret = NoRet
    /\ \E o \in {PyTrue, PyFalse, None} :
          ret' = [fn |-> "get_num_params", args |-> <<degree, o>>,
                  res |-> get_num_params(degree, o)]
    /\ UNCHANGED <<ifgs, args, outside, pc, i, exc, ncalls, snaps, work, idlog>>

CallGetDesignMatrix ==
    /\ ret = NoRet
    /\ \E k \in 1..Len(ifgs) :
          ret' = [fn |-> "get_design_matrix", args |-> <<k, degree, offset>>,
                  res |-> get_design_matrix(ifgs[k], degree, offset)]
    /\ UNCHANGED <<ifgs, args, outside, pc, i, exc, ncalls, snaps, work, idlog>>

CallGetNetworkDesignMatrix ==
    /\ ret = NoRet
    /\ \E n \in 0..Len(ifgs) :
          ret' = [fn |-> "get_network_design_matrix", args |-> <<n, degree, offset>>,
                  res |-> get_network_design_matrix(SubSeq(ifgs, 1, n), degree, offset)]
    /\ UNCHANGED <<ifgs, args, outside, pc, i, exc, ncalls, snaps, work, idlog>>

BuilderInit == InitWith(BuilderInputs)

BuilderNext ==
    \/ CallGetNumParams
    \/ CallGetDesignMatrix
    \/ CallGetNetworkDesignMatrix

BuilderSpec == BuilderInit /\ [][BuilderNext]_vars

\* ------------------------------------------------------------ properties
\* the parameter counts of lines 100-105
BaseParams(d) == IF d = PLANAR THEN 2 ELSE IF d = QUADRATIC THEN 5 ELSE 6

\* C1: for every degree and offset value, get_num_params returns 2 for PLANAR,
\* 5 for QUADRATIC and 6 for PART_CUBIC, plus 1 if offset is true, and raises
\* the invalid-degree OrbitalError for any other degree.
C1_NumParams ==
    ret.fn = "get_num_params" =>
        IF ret.args[1] \in {PLANAR, QUADRATIC, PART_CUBIC}
        THEN /\ ret.res.exc = NoExc
             /\ ret.res.val = BaseParams(ret.args[1]) + (IF ret.args[2] = PyTrue THEN 1 ELSE 0)
        ELSE ret.res.exc = [type |-> "OrbitalError", msg |-> MsgInvalidModelDegree]

\* C1 happens: a call with PART_CUBIC and offset returned 7
C1_Witness ==
    /\ ret.fn = "get_num_params"
    /\ ret.args = <<PART_CUBIC, PyTrue>>
    /\ ret.res = Ok(7)

\* the interferogram a call of get_design_matrix was given
DmIfg == ifgs[ret.args[1]]

\* the column of the design matrix that holds x (y follows it)
XColumn(d) == BaseParams(d) - 1

\* the shape and the contents of the matrix res for the interferogram ifg
DmShape(ifg, d, o, res) ==
    LET ncol == BaseParams(d) + (IF o = PyTrue THEN 1 ELSE 0)
    IN  /\ Len(res) = ifg.nrows * ifg.ncols
        /\ \A k \in 1..Len(res) :
              /\ Len(res[k]) = ncol
              \* row-major order: cell k is at column (k-1) mod ncols, row (k-1) div ncols
              /\ res[k][XColumn(d)] = R(((k - 1) % ifg.ncols) * ifg.x_size)
              /\ res[k][XColumn(d) + 1] = R(((k - 1) \div ifg.ncols) * ifg.y_size)
        /\ (\A k \in 1..Len(res) : res[k][ncol] = One) <=> (o = PyTrue)

\* C2: get_design_matrix returns a matrix with num_cells rows in row-major
\* pixel order and get_num_params(degree, offset) columns, whose final column
\* is all ones iff offset is true; the matrix is the same whichever pixels of
\* the phase raster are no-data; the interferogram is not mutated.
C2_DesignMatrix ==
    /\ [](ret.fn = "get_design_matrix" /\ ret.args[2] \in {PLANAR, QUADRATIC, PART_CUBIC} =>
            /\ ~Raised(ret.res)
            /\ DmShape(DmIfg, ret.args[2], ret.args[3], ret.res.val)
            /\ \A nodata \in SUBSET (1..num_cells(DmIfg)) :
                  get_design_matrix(
                      [DmIfg EXCEPT !.phase_data =
                          [k \in 1..num_cells(DmIfg) |-> IF k \in nodata THEN NaN ELSE R(k)]],
                      ret.args[2], ret.args[3]) = ret.res)
    /\ [][CallGetDesignMatrix => ifgs' = ifgs]_vars

\* C2 happens: a PART_CUBIC matrix with the offset column was built for the
\* 2 x 4 geometry, whose raster holds a no-data cell
C2_Witness ==
    /\ ret.fn = "get_design_matrix"
    /\ ret.args[2] = PART_CUBIC /\ ret.args[3] = PyTrue
    /\ ~Raised(ret.res)
    /\ Len(ret.res.val) = 8 /\ Len(ret.res.val[1]) = 7
    /\ \E k \in 1..8 : isnan(DmIfg.phase_data[k])

\* the interferograms a call of get_network_design_matrix was given
NdmIfgs == SubSeq(ifgs, 1, ret.args[1])

\* the factor of the basis in the column block of epoch index e for ifg
BlockSign(ifg, ids, e) ==
    (IF ids[ifg.slave] = e THEN 1 ELSE 0) - (IF ids[ifg.master] = e THEN 1 ELSE 0)

\* C3: row-block i of the network design matrix holds the negated offset-free
\* basis in the master epoch's column block, the basis in the slave epoch's
\* block and zero in every other epoch block, so that the row-block times
\* per-epoch coefficients is basis * (coef[slave] - coef[master]); an
\* interferogram whose master and slave epochs are identical contributes zero.
C3_RowBlocks ==
    (ret.fn = "get_network_design_matrix" /\ ~Raised(ret.res)) =>
        LET basis == get_design_matrix(NdmIfgs[1], ret.args[2], PyFalse).val
            ncoef == BaseParams(ret.args[2])
            nc == num_cells(NdmIfgs[1])
            ids == ndm_ids(NdmIfgs)
        IN  \A n \in 1..Len(NdmIfgs), k \in 1..nc, c \in 1..ncoef :
                \A e \in 0..(get_epoch_count(NdmIfgs) - 1) :
                    ret.res.val[(n - 1) * nc + k][e * ncoef + c]
                        = RMul(R(BlockSign(NdmIfgs[n], ids, e)), basis[k][c])

\* C3 fails here: the matrix of a single interferogram whose master and slave
\* are the same epoch holds the basis itself, not zero, in that epoch's block
C3_SameEpochBlock ==
    /\ ret.fn = "get_network_design_matrix"
    /\ ret.args = <<1, PLANAR, PyFalse>>
    /\ ifgs[1].master = ifgs[1].slave
    /\ ~Raised(ret.res)
    /\ ret.res.val = get_design_matrix(ifgs[1], PLANAR, PyFalse).val
    /\ \E k \in 1..Len(ret.res.val) : ret.res.val[k] # <<Zero, Zero>>

\* a call of orbital_correction has returned or raised
Finished == pc = "idle" /\ ncalls > 0

\* the phase rasters of ifgs when the current (or last) call started
Before == snaps[ncalls]

\* C4 (as stated): a method that is neither INDEPENDENT_METHOD nor
\* NETWORK_METHOD raises the invalid-method error and leaves every phase raster
\* of ifgs unchanged.
C4_AsStated ==
    (Finished /\ method \notin {INDEPENDENT_METHOD, NETWORK_METHOD}) =>
        /\ exc = [type |-> "OrbitalError", msg |-> MsgUnknownMethod]
        /\ Phases(ifgs) = Before

\* C4 (amended): with a degree in {PLANAR, QUADRATIC, PART_CUBIC}, a method that
\* is neither INDEPENDENT_METHOD nor NETWORK_METHOD raises the invalid-method
\* OrbitalError; with any degree it raises an OrbitalError and leaves every
\* phase raster of ifgs unchanged.
C4_UnknownMethod ==
    (Finished /\ method \notin {INDEPENDENT_METHOD, NETWORK_METHOD}) =>
        /\ exc.type = "OrbitalError"
        /\ degree \in {PLANAR, QUADRATIC, PART_CUBIC} => exc.msg = MsgUnknownMethod
        /\ work = NoWork
        /\ Phases(ifgs) = Before

\* C4 happens: a call with a valid degree and an unknown method has raised
C4_Witness ==
    /\ Finished
    /\ method = "MST_METHOD"
    /\ degree = QUADRATIC
    /\ exc = [type |-> "OrbitalError", msg |-> MsgUnknownMethod]

\* the mlooked argument is given and does not match ifgs
Mismatched ==
    /\ mlooked # <<>>
    /\ \/ Len(mlooked[1]) # Len(ifgs)
       \/ \E k \in 1..Len(mlooked[1]) : ~mlooked[1][k].has_phase_data

MismatchErrors ==
    {[type |-> "OrbitalError", msg |-> MsgMismatchCount],
     [type |-> "OrbitalError", msg |-> MsgMismatchTypes]}

\* C5 (as stated): the NETWORK method with an mlooked collection of another
\* length than ifgs, or with an element without phase data, raises the
\* mismatched-multilooked-input error before any design matrix is built and
\* with no phase raster of ifgs or mlooked modified.
C5_AsStated ==
    (Finished /\ method = NETWORK_METHOD /\ Mismatched) =>
        /\ exc \in MismatchErrors
        /\ work = NoWork
        /\ Phases(ifgs) = Before
        /\ MPhases(mlooked) = msnap

\* C5 (amended): the same, for a degree in {PLANAR, QUADRATIC, PART_CUBIC}; the
\* length is checked first.  With any other degree the call still raises an
\* OrbitalError before any matrix is built and modifies no raster.
C5_MismatchedMlooked ==
    (Finished /\ method = NETWORK_METHOD /\ Mismatched) =>
        /\ exc.type = "OrbitalError"
        /\ degree \in {PLANAR, QUADRATIC, PART_CUBIC} =>
              exc.msg = IF Len(mlooked[1]) # Len(ifgs) THEN MsgMismatchCount
                        ELSE MsgMismatchTypes
        /\ work = NoWork
        /\ Phases(ifgs) = Before
        /\ MPhases(mlooked) = msnap

\* C5 happens: an mlooked of the right length with an element without phase
\* data was rejected
C5_Witness ==
    /\ Finished
    /\ method = NETWORK_METHOD
    /\ degree = PLANAR
    /\ mlooked # <<>>
    /\ Len(mlooked[1]) = Len(ifgs)
    /\ ~mlooked[1][Len(ifgs)].has_phase_data
    /\ exc = [type |-> "OrbitalError", msg |-> MsgMismatchTypes]

\* C6: a degree outside {PLANAR, QUADRATIC, PART_CUBIC} raises the OrbitalError
\* of the degree check before any other step, whatever the method and mlooked
\* are: no design matrix is built, no solve is run, no phase raster is modified.
C6_InvalidDegree ==
    (ncalls > 0 /\ degree \notin {PLANAR, QUADRATIC, PART_CUBIC}) =>
        /\ pc \in {"check_degree", "idle"}
        /\ pc = "idle" => exc = [type |-> "OrbitalError", msg |-> MsgInvalidDegree]
        /\ work = NoWork
        /\ Phases(ifgs) = Before
        /\ MPhases(mlooked) = msnap

\* C6 happens: an invalid degree with an unknown method and a mismatched
\* mlooked raised the error of the degree check
C6_Witness ==
    /\ Finished
    /\ degree = "CUBIC"
    /\ method = "MST_METHOD"
    /\ Mismatched
    /\ exc = [type |-> "OrbitalError", msg |-> MsgInvalidDegree]

\* the terms <<x*y^2, x^2, y^2, x*y, x, y, 1>> the design matrix of a degree
\* and offset has a column for (lines 202-219)
BasisTerms(d, o) ==
    (IF d = PLANAR THEN {5, 6} ELSE IF d = QUADRATIC THEN {2, 3, 4, 5, 6} ELSE 1..6)
        \cup (IF o = PyTrue THEN {7} ELSE {})

TrendZero == <<0, 0, 0, 0, 0, 0, 0>>

\* the raster pre of ifg is, at its valid cells, a trend of the column space
ExactTrend(ifg, pre, d, o) ==
    \E t \in Trends \cup {TrendZero} :
        /\ \A j \in 1..7 : t[j] # 0 => j \in BasisTerms(d, o)
        /\ \A c \in 1..Len(pre) : ~isnan(pre[c]) => pre[c] = R(TrendAt(ifg, c, t))

ValidCells(pre) == {c \in 1..Len(pre) : ~isnan(pre[c])}

\* C7: if the phase of an interferogram is, at every valid pixel, an exact
\* polynomial trend in the column space of its design matrix, and the valid
\* pixels outnumber the columns, then after _independent_correction the phase
\* is zero at every pixel that was not no-data.
C7_ExactTrend ==
    (method = INDEPENDENT_METHOD /\ ncalls > 0) =>
        \A k \in 1..Len(ifgs) :
            (/\ k < i
             /\ ExactTrend(ifgs[k], Before[k], degree, offset)
             /\ Cardinality(ValidCells(Before[k])) > Cardinality(BasisTerms(degree, offset)))
            => \A c \in ValidCells(Before[k]) : ifgs[k].phase_data[c] = Zero

\* C7 happens: phase = 3*x + 2*y with a no-data cell, PLANAR without offset,
\* was corrected to zero
C7_Witness ==
    /\ method = INDEPENDENT_METHOD /\ degree = PLANAR /\ offset = PyFalse
    /\ ncalls = 1 /\ i > 1
    /\ Len(Before[1]) = 8
    /\ \E c \in 1..8 : isnan(Before[1][c])
    /\ \A c \in ValidCells(Before[1]) : Before[1][c] = R(TrendAt(ifgs[1], c, TrendPlanar))
    /\ \E c \in ValidCells(Before[1]) : Before[1][c] # Zero
    /\ \A c \in ValidCells(Before[1]) : ifgs[1].phase_data[c] = Zero

\* a second call with the same arguments has returned
SecondDone == Finished /\ ncalls = 2 /\ exc = NoExc

\* C8 (as stated): a second call on interferograms the first call has
\* corrected changes their phase rasters again.
C8_AsStated ==
    (SecondDone /\ snaps[2] # snaps[1]) => Phases(ifgs) # snaps[2]

\* what the second call subtracted from cell c of interferogram k, less what
\* the first call subtracted from it
Resubtracted(k, c) ==
    RSub(RSub(snaps[2][k][c], ifgs[k].phase_data[c]), RSub(snaps[1][k][c], snaps[2][k][c]))

\* C8 (amended): nothing in orbital_correction detects or skips corrected
\* interferograms: a second call builds the same matrices and runs the same
\* solves again.  With the NETWORK method and mlooked it subtracts the surface
\* of the first call again (up to the per-interferogram median offset; exactly
\* without offset); with the INDEPENDENT method, or the NETWORK method without
\* mlooked, the surface fitted to corrected rasters is zero and the rasters
\* stay as they are (in exact arithmetic).
C8_SecondCall ==
    SecondDone =>
        /\ work = IF method = INDEPENDENT_METHOD
                  THEN [dms |-> Len(ifgs), solves |-> Len(ifgs)]
                  ELSE [dms |-> 3, solves |-> 1]
        /\ (method = INDEPENDENT_METHOD \/ mlooked = <<>>) => Phases(ifgs) = snaps[2]
        /\ (method = NETWORK_METHOD /\ mlooked # <<>>) =>
              \A k \in 1..Len(ifgs) :
                 \A c, d \in ValidCells(snaps[1][k]) :
                    /\ Resubtracted(k, c) = Resubtracted(k, d)
                    /\ offset = PyFalse => Resubtracted(k, c) = Zero

\* C8 happens: a second NETWORK call with mlooked changed the rasters again
C8_Witness ==
    /\ SecondDone
    /\ method = NETWORK_METHOD /\ mlooked # <<>> /\ offset = PyFalse
    /\ snaps[2] # snaps[1]
    /\ Phases(ifgs) # snaps[2]

CorrectedPhase(k) ==
    _independent_correction([ifgs[k] EXCEPT !.phase_data = Before[k]],
                            degree, offset).val.phase_data

\* C10: the INDEPENDENT method corrects the interferograms one at a time in
\* the order of ifgs; if the correction of interferogram k fails the error
\* propagates, the interferograms before k keep their corrected phase and
\* interferogram k and the later ones have their phase unchanged.
C10_Sequential ==
    (method = INDEPENDENT_METHOD /\ ncalls > 0 /\ degree \in {PLANAR, QUADRATIC, PART_CUBIC}) =>
        /\ \A k \in 1..Len(ifgs) :
              ifgs[k].phase_data = IF k < i THEN CorrectedPhase(k) ELSE Before[k]
        /\ exc # NoExc =>
              /\ pc = "idle"
              /\ i \in 1..Len(ifgs)
              /\ exc = _independent_correction(ifgs[i], degree, offset).exc
        /\ (pc = "idle" /\ exc = NoExc) => i = Len(ifgs) + 1

\* C10 happens: the correction of the second interferogram failed after the
\* first was corrected
C10_Witness ==
    /\ Finished
    /\ method = INDEPENDENT_METHOD
    /\ exc.type = "ValueError"
    /\ i = 2
    /\ ifgs[1].phase_data # Before[1]
    /\ ifgs[2].phase_data = Before[2]

RECURSIVE sequential_loop(_, _, _, _)
\* the interferograms seq after the loop of lines 78-79 has run from index k:
\* it stops at the first correction that raises
sequential_loop(seq, k, d, o) ==
    IF k > Len(seq) THEN seq
    ELSE LET next(r) ==
                 IF Raised(r) THEN seq
                 ELSE sequential_loop([seq EXCEPT ![k] = r.val], k + 1, d, o)
         IN  next(_independent_correction(seq[k], d, o))

\* the interferograms as they were when the workers were forked
ForkedIfgs == Tup([k \in 1..Len(ifgs) |-> [ifgs[k] EXCEPT !.phase_data = Before[k]]])

\* C11: under the INDEPENDENT method the corrected phase of an interferogram
\* depends only on that interferogram, degree and offset: corrections run in
\* any order or interleaving, each interferogram written by exactly one of
\* them, end with the phase rasters of the sequential loop, and no correction
\* reads or writes another interferogram.
C11_AnyOrder ==
    /\ [](ncalls > 0 =>
            /\ \A k \in 1..Len(ifgs) :
                  /\ workers[k].pc = "done" => ifgs[k].phase_data = CorrectedPhase(k)
                  /\ workers[k].pc # "done" => ifgs[k].phase_data = Before[k]
                  /\ workers[k].pc = "fitted" =>
                        workers[k].correction
                            = independent_fit(ForkedIfgs[k], degree, offset).val
            /\ (\A k \in 1..Len(ifgs) : workers[k].pc = "done") =>
                  ifgs = sequential_loop(ForkedIfgs, 1, degree, offset))
    /\ [][\A k \in 1..Len(ifgs) :
            ifgs'[k] # ifgs[k] =>
                /\ workers[k].pc = "fitted" /\ workers'[k].pc = "done"
                /\ \A j \in 1..Len(ifgs) : j # k => ifgs'[j] = ifgs[j]]_vars

\* C11 happens: the second interferogram was written while the worker of the
\* first was between its fit and its write, and both writes changed the phase
C11_Witness ==
    /\ Len(ifgs) = 2
    /\ workers[1].pc = "fitted" /\ workers[2].pc = "done"
    /\ ifgs[2].phase_data # Before[2]
    /\ \E c \in 1..Len(Before[1]) : workers[1].correction[c] # Zero

\* ------------------------------------------------------------ the ORBITAL_ERROR guard
\* remove_orbital_error has returned or raised at least once
DriverDone == dpc = "idle" /\ dlog.calls > 0

Mixed(f) == (\E k \in 1..Len(f) : f[k] = META_REMOVED) /\ (\E k \in 1..Len(f) : f[k] = None)

\* no interferogram's phase is written by more than one correction
OnceOnly == \A k \in 1..Len(ifgs) : dlog.written[k] <= 1

\* an interferogram carries the item only if its phase was corrected
FlagAfterCorrection ==
    \A k \in 1..Len(ifgs) : flags[k] = META_REMOVED => dlog.written[k] >= 1

\* a call that found the item on every interferogram changed no phase
AllFlaggedUntouched ==
    (DriverDone /\ all(dlog.start)) =>
        /\ Phases(ifgs) = dlog.before
        /\ dlog.wrote = {}
        /\ dlog.raised = NoExc

\* a call that found a mix raised OrbitalError and changed no phase
MixRejected ==
    (DriverDone /\ Mixed(dlog.start)) =>
        /\ dlog.raised # NoExc
        /\ dlog.raised.type = "OrbitalError"
        /\ Phases(ifgs) = dlog.before
        /\ dlog.wrote = {}

\* every interferogram the call wrote carries the item when the call has ended
WrittenFlagged ==
    DriverDone => \A k \in dlog.wrote : flags[k] = META_REMOVED

\* C12 as stated: across any sequence of remove_orbital_error calls no
\* interferogram's phase is corrected more than once: the ORBITAL_ERROR item
\* is set only after the phase was corrected, a call on interferograms that
\* all carry the item modifies no phase, a call on a mix raises OrbitalError
\* without modifying any phase, and every interferogram a call modified
\* carries the item once the call ends, also when it ends with an error.
\* Violated: a correction of the INDEPENDENT loop that raises leaves
\* remove_orbital_error at line 162 with the earlier interferograms written
\* and no item set, and the next call corrects them again.
C12_GuardAsStated ==
    /\ OnceOnly
    /\ FlagAfterCorrection
    /\ AllFlaggedUntouched
    /\ MixRejected
    /\ WrittenFlagged

\* the parts of C12 that do not depend on a call ending with an error
C12_GuardParts ==
    /\ FlagAfterCorrection
    /\ AllFlaggedUntouched
    /\ MixRejected
    /\ (DriverDone /\ dlog.raised = NoExc) => \A k \in dlog.wrote : flags[k] = META_REMOVED

\* the second call has corrected the first interferogram again: the first
\* call changed its phase, raised on the second interferogram and set no item
C12_CorrectedTwice ==
    /\ DriverDone
    /\ dlog.calls = 2
    /\ method = INDEPENDENT_METHOD
    /\ dlog.written[1] = 2
    /\ flags[1] = None
    /\ snaps[2][1] # snaps[1][1]
    /\ dlog.raised # NoExc

====
